---- MODULE Spec2Model ----
(***************************************************************************)
(* Multi-agent pull-request reviewer (src/multi_agent_reviewer.py).        *)
(*                                                                         *)
(* A text (a Python str) is a sequence of tokens.  A token is a brace, a   *)
(* word of prose, or one complete member ("key": value) of a JSON object.  *)
(* The session state is a dict; the report is the dict run_review returns. *)
(***************************************************************************)
EXTENDS Integers, Sequences, FiniteSets, TLC

VARIABLES
    pc,             \* position of run_review
    agent,          \* per specialist: "pending", "running", "done", "raised"
    invocations,    \* per specialist: how many times it was invoked
    techLead,       \* "pending", "running", "done", "raised"
    state,          \* session.state, the keyed store
    final_response, \* run_review's final_response
    seen,           \* the specialist slots as the tech lead found them
    report,         \* the dict run_review returns
    text,           \* argument of a direct call of parse_json_response
    parsed,         \* outcome of that call
    writers,        \* which agent wrote which key of the store
    mainPc,         \* position of main
    config,         \* GCP_PROJECT_ID and GITHUB_TOKEN: set or not
    tools_discovered, \* discover_mcp_tools was called
    output_file,    \* review_results.json
    exit_code       \* what main returned, <<>> while it runs

\* the variables of main
mainVars == <<mainPc, config, tools_discovered, output_file, exit_code>>

vars == <<pc, agent, invocations, techLead, state, final_response, seen,
          report, text, parsed, writers, mainVars>>

-----------------------------------------------------------------------------
(* Bounds of the model *)

\* longest text handed to parse_json_response directly
MaxLen == 4

-----------------------------------------------------------------------------
(* Texts *)

LBrace == "{"
RBrace == "}"

\* words that are no JSON
ProseTokens == {"p", "q"}

\* members a specialist's payload is made of (instruction, lines 149-190)
SpecialistMembers ==
    {"pr_accessed:true", "pr_accessed:false",
     "files_in_diff:[a]", "files_in_diff:[a,b]", "files_reviewed:[b]",
     "findings:[]", "findings:[CRITICAL,LOW]", "summary:S"}

\* members the tech lead's payload is made of (instruction, lines 237-274)
TechLeadMembers ==
    {"auto_approve:true", "auto_approve:false",
     "final_decision:APPROVE", "final_decision:REQUEST_CHANGES",
     "final_decision:COMMENT",
     "summary:T", "overall_score:7", "congratulations_message:G",
     "critical_blockers:[x]", "critical_blockers:1",
     "important_improvements:[y]",
     "optional_suggestions:[z]", "inline_comments:[c]",
     "rationale:R", "next_steps:[n]"}

MemberTokens == SpecialistMembers \cup TechLeadMembers

\* the key of a member
MemberKey(tok) ==
    CASE tok \in {"pr_accessed:true", "pr_accessed:false"} -> "pr_accessed"
      [] tok \in {"files_in_diff:[a]", "files_in_diff:[a,b]"} -> "files_in_diff"
      [] tok = "files_reviewed:[b]" -> "files_reviewed"
      [] tok \in {"findings:[]", "findings:[CRITICAL,LOW]"} -> "findings"
      [] tok \in {"summary:S", "summary:T"} -> "summary"
      [] tok \in {"auto_approve:true", "auto_approve:false"} -> "auto_approve"
      [] tok \in {"final_decision:APPROVE", "final_decision:REQUEST_CHANGES",
                  "final_decision:COMMENT"} -> "final_decision"
      [] tok = "overall_score:7" -> "overall_score"
      [] tok = "congratulations_message:G" -> "congratulations_message"
      [] tok \in {"critical_blockers:[x]", "critical_blockers:1"} ->
            "critical_blockers"
      [] tok = "important_improvements:[y]" -> "important_improvements"
      [] tok = "optional_suggestions:[z]" -> "optional_suggestions"
      [] tok = "inline_comments:[c]" -> "inline_comments"
      [] tok = "rationale:R" -> "rationale"
      [] tok = "next_steps:[n]" -> "next_steps"

\* a JSON number where a list is expected: truthy and not iterable; written
\* as a one-element sequence that no list of strings of the model equals
Scalar == <<"#1">>

\* the value of a member; a JSON string is a text, a JSON array a sequence
MemberValue(tok) ==
    CASE tok = "pr_accessed:true" -> TRUE
      [] tok = "pr_accessed:false" -> FALSE
      [] tok = "files_in_diff:[a]" -> <<"a">>
      [] tok = "files_in_diff:[a,b]" -> <<"a", "b">>
      [] tok = "files_reviewed:[b]" -> <<"b">>
      [] tok = "findings:[]" -> <<>>
      [] tok = "findings:[CRITICAL,LOW]" ->
            <<[severity |-> "CRITICAL"], [severity |-> "LOW"]>>
      [] tok = "summary:S" -> <<"S">>
      [] tok = "summary:T" -> <<"T">>
      [] tok = "auto_approve:true" -> TRUE
      [] tok = "auto_approve:false" -> FALSE
      [] tok = "final_decision:APPROVE" -> "APPROVE"
      [] tok = "final_decision:REQUEST_CHANGES" -> "REQUEST_CHANGES"
      [] tok = "final_decision:COMMENT" -> "COMMENT"
      [] tok = "overall_score:7" -> 7
      [] tok = "congratulations_message:G" -> <<"G">>
      [] tok = "critical_blockers:[x]" -> <<"x">>
      [] tok = "critical_blockers:1" -> Scalar
      [] tok = "important_improvements:[y]" -> <<"y">>
      [] tok = "optional_suggestions:[z]" -> <<"z">>
      [] tok = "inline_comments:[c]" -> <<"c">>
      [] tok = "rationale:R" -> <<"R">>
      [] tok = "next_steps:[n]" -> <<"n">>

\* str.find: the 0-based index of the first occurrence of tok, or -1
Find(s, tok) ==
    IF \E i \in 1..Len(s) : s[i] = tok
    THEN (CHOOSE i \in 1..Len(s) :
            s[i] = tok /\ \A j \in 1..(i - 1) : s[j] # tok) - 1
    ELSE -1

\* str.rfind: the 0-based index of the last occurrence of tok, or -1
RFind(s, tok) ==
    IF \E i \in 1..Len(s) : s[i] = tok
    THEN (CHOOSE i \in 1..Len(s) :
            s[i] = tok /\ \A j \in (i + 1)..Len(s) : s[j] # tok) - 1
    ELSE -1

\* the slice s[from:to] of Python, for 0 <= from
Slice(s, from, to) == SubSeq(s, from + 1, to)

\* dict.get(key, default)
Get(d, key, default) == IF key \in DOMAIN d THEN d[key] ELSE default

\* the dict of a sequence of members; a repeated key keeps its last value
RECURSIVE ObjectOf(_)
ObjectOf(members) ==
    IF members = <<>> THEN <<>>
    ELSE LET n == Len(members)
             rest == ObjectOf(SubSeq(members, 1, n - 1))
             k == MemberKey(members[n])
         IN  [key \in (DOMAIN rest) \cup {k} |->
                IF key = k THEN MemberValue(members[n]) ELSE rest[key]]

\* a member whose value nests arrays deeper than the interpreter's recursion
\* limit lets the decoder go
DeepMember == "nested:[[[...]]]"

\* json.loads: a JSON document is one object, "{" members "}".  The decoder
\* scans from the left: the first token that is no member raises
\* JSONDecodeError, a member nested too deep raises RecursionError
JsonLoads(s) ==
    LET n == Len(s)
        bad == {i \in 2..(n - 1) : s[i] \notin MemberTokens}
        first == CHOOSE i \in bad : \A j \in bad : i <= j
    IN  IF n < 2 \/ s[1] # LBrace \/ s[n] # RBrace
        THEN [ok |-> FALSE, error |-> "JSONDecodeError", value |-> <<>>]
        ELSE IF bad = {}
        THEN [ok |-> TRUE, error |-> "", value |-> ObjectOf(SubSeq(s, 2, n - 1))]
        ELSE IF s[first] = DeepMember
        THEN [ok |-> FALSE, error |-> "RecursionError", value |-> <<>>]
        ELSE [ok |-> FALSE, error |-> "JSONDecodeError", value |-> <<>>]

\* a plausible bug: the fallback keeps no summary
FallbackPayloadEmptySummary(t) ==
    [summary |-> <<>>, findings |-> <<>>, recommendation |-> "COMMENT"]

\* the payload parse_json_response falls back to
FallbackPayload(t) ==
    [summary |-> t, findings |-> <<>>, recommendation |-> "COMMENT"]

\* parse_json_response: raised tells whether an exception leaves the call;
\* the handler catches JSONDecodeError only
ParseJsonResponse(t) ==
    LET json_start == Find(t, LBrace)
        json_end == RFind(t, RBrace) + 1
    IN  IF json_start >= 0 /\ json_end > json_start
        THEN LET loaded == JsonLoads(Slice(t, json_start, json_end))
             IN  IF loaded.ok
                 THEN [raised |-> FALSE, value |-> loaded.value]
                 ELSE IF loaded.error = "JSONDecodeError"
                 THEN [raised |-> FALSE, value |-> FallbackPayload(t)]
                 ELSE [raised |-> TRUE, value |-> <<>>]
        ELSE [raised |-> FALSE, value |-> FallbackPayload(t)]

-----------------------------------------------------------------------------
(* The review request and the agents *)

\* REPO_OWNER, REPO_NAME, PR_NUMBER as main defaults them
Owner == "test-owner"
Repo == "test-repo"
PrNumber == 1

\* f"{owner}/{repo}"
Repository == <<Owner, "/", Repo>>

\* f"{owner}/{repo}#{pr_number}"
Pr == <<Owner, "/", Repo, "#", PrNumber>>

\* str.lower on the agent names
Lower(name) ==
    CASE name = "ProductOwner" -> "productowner"
      [] name = "SeniorEngineer" -> "seniorengineer"
      [] name = "SecurityEngineer" -> "securityengineer"
      [] name = "DevOpsEngineer" -> "devopsengineer"
      [] name = "QAEngineer" -> "qaengineer"

\* a plausible bug: the output key does not carry the agent's name
ReviewKeyShared(name) == "review"

\* f"{name.lower()}_review"
ReviewKey(name) ==
    CASE Lower(name) = "productowner" -> "productowner_review"
      [] Lower(name) = "seniorengineer" -> "seniorengineer_review"
      [] Lower(name) = "securityengineer" -> "securityengineer_review"
      [] Lower(name) = "devopsengineer" -> "devopsengineer_review"
      [] Lower(name) = "qaengineer" -> "qaengineer_review"

\* create_specialist_agent: the LlmAgent's name, description and output_key
CreateSpecialistAgent(name, description) ==
    [name |-> name, description |-> description, output_key |-> ReviewKey(name)]

\* orchestrator.specialist_agents, in the order __init__ lists them
SpecialistAgents ==
    << CreateSpecialistAgent("ProductOwner",
         "Product Owner - Reviews PRs for PR alignment with linked issues, Acceptance criteria validation"),
       CreateSpecialistAgent("SeniorEngineer",
         "Senior Software Engineer - Reviews PRs for Code quality and readability, Architecture and design patterns"),
       CreateSpecialistAgent("SecurityEngineer",
         "Security Engineer - Reviews PRs for Security vulnerabilities (OWASP Top 10), Authentication/authorization"),
       CreateSpecialistAgent("DevOpsEngineer",
         "DevOps Engineer - Reviews PRs for CI/CD configuration, Infrastructure as Code"),
       CreateSpecialistAgent("QAEngineer",
         "QA Engineer - Reviews PRs for Test coverage, Test quality") >>

Specialists == 1..Len(SpecialistAgents)

\* create_tech_lead_agent: the output_key of the tech lead
TechLeadKey == "tech_lead_synthesis"

\* create_tech_lead_agent: the name of the tech lead
TechLeadName == "TechLead"

-----------------------------------------------------------------------------
(* What the reasoning engine may answer *)

NoOutput == <<>>
ProseOutput == <<"p", "q">>
CleanOutput ==
    <<"p", LBrace, "pr_accessed:true", "files_in_diff:[a]", "findings:[]", RBrace>>
NoAccessOutput ==
    <<LBrace, "pr_accessed:false", "files_reviewed:[b]", RBrace>>
\* its verdict is under the tech lead's key final_decision, not under
\* recommendation
CriticalOutput ==
    <<LBrace, "pr_accessed:true", "files_in_diff:[a,b]",
      "findings:[CRITICAL,LOW]", "summary:S",
      "final_decision:REQUEST_CHANGES", RBrace, "q">>

SpecialistOutputs ==
    {NoOutput, ProseOutput, CleanOutput, NoAccessOutput, CriticalOutput}

MalformedSynthesis == <<LBrace, "p", RBrace>>
EmptySynthesis == <<LBrace, RBrace>>
ApproveSynthesis ==
    <<LBrace, "auto_approve:true", "final_decision:APPROVE", "summary:T",
      "overall_score:7", "congratulations_message:G", RBrace>>
RequestChangesSynthesis ==
    <<"p", LBrace, "auto_approve:false", "final_decision:REQUEST_CHANGES",
      "critical_blockers:[x]", "important_improvements:[y]",
      "optional_suggestions:[z]", "inline_comments:[c]", "rationale:R",
      "next_steps:[n]", RBrace>>
CommentSynthesis ==
    <<LBrace, "auto_approve:true", "final_decision:COMMENT", RBrace>>
ScalarBlockersSynthesis ==
    <<LBrace, "final_decision:COMMENT", "critical_blockers:1", RBrace>>

TechLeadOutputs ==
    {NoOutput, MalformedSynthesis, EmptySynthesis, ApproveSynthesis,
     RequestChangesSynthesis, CommentSynthesis, ScalarBlockersSynthesis}

-----------------------------------------------------------------------------
(* run_review: building the report from the session state *)

\* the elements of a list
Range(s) == {s[i] : i \in 1..Len(s)}

\* list(a_set): every element once, in an order the build chooses
ListsOf(S) ==
    {s \in [1..Cardinality(S) -> S] : \A x \in S : \E i \in DOMAIN s : s[i] = x}

\* Python's "not v" for the values pr_accessed takes
Not(v) == v = FALSE

\* parsed.get("files_in_diff", parsed.get("files_reviewed", []))
FilesInDiff(p) == Get(p, "files_in_diff", Get(p, "files_reviewed", <<>>))

\* a plausible bug: the files are collected whatever pr_accessed says
FilesAfterAlways(files, pr_accessed, files_in_diff) ==
    files \cup Range(files_in_diff)

\* all_files_reviewed after one specialist
FilesAfter(files, pr_accessed, files_in_diff) ==
    IF Not(pr_accessed) THEN files ELSE files \cup Range(files_in_diff)

\* data_access_issues after one specialist with output
IssuesAfter(issues, name, pr_accessed) ==
    IF Not(pr_accessed)
    THEN Append(issues, <<name, ": Could not access PR data">>)
    ELSE issues

\* a plausible bug: a payload without pr_accessed counts as no access
PrAccessedDefaultFalse(p) == Get(p, "pr_accessed", FALSE)

\* pr_accessed = parsed.get("pr_accessed", True)
PrAccessed(p) == Get(p, "pr_accessed", TRUE)

\* the entry appended to specialist_results
SpecialistEntry(a, p) ==
    [agent |-> a.name,
     role |-> Get(p, "agent_role", a.description),
     pr_accessed |-> PrAccessed(p),
     repository |-> Get(p, "repository", Repository),
     pr_number |-> Get(p, "pr_number", PrNumber),
     summary |-> Get(p, "summary", <<>>),
     score |-> Get(p, "score", 0),
     files_reviewed |-> FilesInDiff(p),
     recommendation |-> Get(p, "recommendation", "COMMENT"),
     rationale |-> Get(p, "rationale", <<>>),
     findings |-> Get(p, "findings", <<>>),
     findings_count |-> Len(Get(p, "findings", <<>>))]

\* the loop over orchestrator.specialist_agents, after its first n rounds
RECURSIVE ReviewLoop(_, _)
ReviewLoop(st, n) ==
    IF n = 0
    THEN [specialist_results |-> <<>>, all_files_reviewed |-> {},
          data_access_issues |-> <<>>, raised |-> FALSE]
    ELSE LET acc == ReviewLoop(st, n - 1)
             a == SpecialistAgents[n]
             review_text == Get(st, ReviewKey(a.name), <<>>)
             call == ParseJsonResponse(review_text)
             p == call.value
             pr_accessed == PrAccessed(p)
         IN  IF acc.raised THEN acc
             ELSE IF review_text # <<>>
             THEN IF call.raised THEN [acc EXCEPT !.raised = TRUE]
                  ELSE [specialist_results |->
                            Append(acc.specialist_results, SpecialistEntry(a, p)),
                        all_files_reviewed |->
                            FilesAfter(acc.all_files_reviewed, pr_accessed,
                                       FilesInDiff(p)),
                        data_access_issues |->
                            IssuesAfter(acc.data_access_issues, a.name, pr_accessed),
                        raised |-> FALSE]
             ELSE [acc EXCEPT !.data_access_issues =
                        Append(@, <<a.name, ": No review output">>)]

\* a plausible bug: one failure already counts as all_failed
DataStatusEager(data_access_issues) ==
    IF Len(data_access_issues) = 0 THEN "all_success"
    ELSE IF Len(data_access_issues) >= 1 THEN "all_failed"
    ELSE "partial_failure"

\* data_status
DataStatus(data_access_issues) ==
    IF Len(data_access_issues) = 0 THEN "all_success"
    ELSE IF Len(data_access_issues) = Len(SpecialistAgents) THEN "all_failed"
    ELSE "partial_failure"

\* sum(len(r.get("findings", [])) for r in specialist_results)
RECURSIVE TotalFindings(_)
TotalFindings(specialist_results) ==
    IF specialist_results = <<>> THEN 0
    ELSE Len(Head(specialist_results).findings)
         + TotalFindings(Tail(specialist_results))

\* a plausible bug: the override tests the wrong status
OverrideAppliesWrongStatus(total_findings, data_status) ==
    total_findings = 0 /\ data_status = "all_failed"

\* the condition of the auto-approve override
OverrideApplies(total_findings, data_status) ==
    total_findings = 0 /\ data_status = "all_success"

\* the congratulations_message run_review defaults to
DefaultCongratulations == <<"Great work! This PR looks clean and well-structured. Keep it up!">>

\* the summary run_review defaults to
ReviewCompleted == <<"Review completed">>

\* the dict run_review returns (its timestamp left out), files being the
\* order list(all_files_reviewed) came out in
ReviewReport(loop, tech_lead_parsed, files) ==
    LET data_status == DataStatus(loop.data_access_issues)
        total_findings == TotalFindings(loop.specialist_results)
        override == OverrideApplies(total_findings, data_status)
    IN  [pr |-> Pr,
         repository |-> Repository,
         pr_number |-> PrNumber,
         data_access_status |-> data_status,
         data_access_issues |-> loop.data_access_issues,
         files_reviewed |-> files,
         summary |-> Get(tech_lead_parsed, "summary", ReviewCompleted),
         overall_score |-> Get(tech_lead_parsed, "overall_score", 0),
         auto_approve |->
            IF override THEN TRUE
            ELSE Get(tech_lead_parsed, "auto_approve", FALSE),
         congratulations_message |->
            Get(tech_lead_parsed, "congratulations_message", DefaultCongratulations),
         final_decision |->
            IF override THEN "APPROVE"
            ELSE Get(tech_lead_parsed, "final_decision", "COMMENT"),
         critical_blockers |-> Get(tech_lead_parsed, "critical_blockers", <<>>),
         important_improvements |->
            Get(tech_lead_parsed, "important_improvements", <<>>),
         optional_suggestions |->
            Get(tech_lead_parsed, "optional_suggestions", <<>>),
         inline_comments |-> Get(tech_lead_parsed, "inline_comments", <<>>),
         specialist_reviews |-> loop.specialist_results,
         rationale |-> Get(tech_lead_parsed, "rationale", <<>>),
         next_steps |-> Get(tech_lead_parsed, "next_steps", <<>>)]

\* session.state.get("tech_lead_synthesis", final_response)
TechLeadText(st, fr) == Get(st, TechLeadKey, fr)

-----------------------------------------------------------------------------
(* The run *)

\* the state create_session is given
InitialState == [owner |-> Owner, repo |-> Repo, pr_number |-> PrNumber]

\* an agent with an output_key saves the text of its final response there
Save(st, key, out) ==
    [k \in (DOMAIN st) \cup {key} |-> IF k = key THEN out ELSE st[k]]

\* the specialists' slots of the store
SpecialistSlots(st) ==
    [i \in Specialists |-> Get(st, SpecialistAgents[i].output_key, <<>>)]

NoReport == [pr |-> <<>>]
NotCalled == [called |-> FALSE]

\* both required settings present
FullConfig == [GCP_PROJECT_ID |-> TRUE, GITHUB_TOKEN |-> TRUE]

\* main is inside its call of run_review
InRunReview ==
    /\ mainPc = "review"
    /\ config = FullConfig
    /\ tools_discovered = TRUE
    /\ output_file = NoReport
    /\ exit_code = <<>>

Init ==
    /\ pc = "start"
    /\ agent = [i \in Specialists |-> "pending"]
    /\ invocations = [i \in Specialists |-> 0]
    /\ techLead = "pending"
    /\ state = InitialState
    /\ final_response = <<>>
    /\ seen = SpecialistSlots(InitialState)
    /\ report = NoReport
    /\ text = <<>>
    /\ parsed = NotCalled
    /\ writers = {}
    /\ InRunReview

\* runner.run_async reaches parallel_review.run_async: ParallelAgent starts
\* every sub-agent
StartParallelReview ==
    /\ pc = "start"
    /\ pc' = "phase1"
    /\ agent' = [i \in Specialists |-> "running"]
    /\ invocations' = [i \in Specialists |-> invocations[i] + 1]
    /\ UNCHANGED <<techLead, state, final_response, seen, report, text, parsed>>
    /\ UNCHANGED <<writers, mainVars>>

\* specialist i ends with the final response out; without text the event has
\* no parts, nothing is saved and run_review's loop skips it
SpecialistRespond(i, out) ==
    /\ pc = "phase1"
    /\ agent[i] = "running"
    /\ agent' = [agent EXCEPT ![i] = "done"]
    /\ IF out # <<>>
       THEN /\ state' = Save(state, SpecialistAgents[i].output_key, out)
            /\ writers' = writers \cup
                  {<<SpecialistAgents[i].output_key, SpecialistAgents[i].name>>}
            /\ final_response' = out
       ELSE UNCHANGED <<state, writers, final_response>>
    /\ UNCHANGED <<pc, invocations, techLead, seen, report, text, parsed>>
    /\ UNCHANGED mainVars

\* specialist i raises: nothing between the agent and main catches it, the
\* exception leaves parallel_review.run_async, _run_async_impl and run_review
SpecialistRaise(i) ==
    /\ pc = "phase1"
    /\ agent[i] = "running"
    /\ agent' = [agent EXCEPT ![i] = "raised"]
    /\ pc' = "raised"
    /\ UNCHANGED <<invocations, techLead, state, final_response, seen, report,
                   text, parsed>>
    /\ UNCHANGED <<writers, mainVars>>

\* a plausible bug: the tech lead starts on the first finished specialist
ParallelReviewExhaustedEarly == \E i \in Specialists : agent[i] = "done"

\* the loop over parallel_review.run_async(ctx) ends: every sub-agent is done
ParallelReviewExhausted == \A i \in Specialists : agent[i] = "done"

\* phase 2 starts: the tech lead reads the specialists' slots
TechLeadStart ==
    /\ pc = "phase1"
    /\ ParallelReviewExhausted
    /\ pc' = "phase2"
    /\ techLead' = "running"
    /\ seen' = SpecialistSlots(state)
    /\ UNCHANGED <<agent, invocations, state, final_response, report, text, parsed>>
    /\ UNCHANGED <<writers, mainVars>>

\* the tech lead ends with the final response out
TechLeadRespond(out) ==
    /\ pc = "phase2"
    /\ techLead = "running"
    /\ techLead' = "done"
    /\ pc' = "aggregate"
    /\ IF out # <<>>
       THEN /\ state' = Save(state, TechLeadKey, out)
            /\ writers' = writers \cup {<<TechLeadKey, TechLeadName>>}
            /\ final_response' = out
       ELSE UNCHANGED <<state, writers, final_response>>
    /\ UNCHANGED <<agent, invocations, seen, report, text, parsed>>
    /\ UNCHANGED mainVars

\* the tech lead raises
TechLeadRaise ==
    /\ pc = "phase2"
    /\ techLead = "running"
    /\ techLead' = "raised"
    /\ pc' = "raised"
    /\ UNCHANGED <<agent, invocations, state, final_response, seen, report,
                   text, parsed>>
    /\ UNCHANGED <<writers, mainVars>>

\* run_review after the event loop: the report is built and returned
BuildReport ==
    /\ pc = "aggregate"
    /\ LET loop == ReviewLoop(state, Len(SpecialistAgents))
           call == ParseJsonResponse(TechLeadText(state, final_response))
       IN  IF loop.raised \/ call.raised
           THEN /\ pc' = "raised"
                /\ UNCHANGED report
           ELSE /\ pc' = "done"
                /\ \E files \in ListsOf(loop.all_files_reviewed) :
                      report' = ReviewReport(loop, call.value, files)
    /\ UNCHANGED <<agent, invocations, techLead, state, final_response, seen,
                   text, parsed>>
    /\ UNCHANGED <<writers, mainVars>>

Next ==
    \/ StartParallelReview
    \/ \E i \in Specialists, out \in SpecialistOutputs : SpecialistRespond(i, out)
    \/ \E i \in Specialists : SpecialistRaise(i)
    \/ TechLeadStart
    \/ \E out \in TechLeadOutputs : TechLeadRespond(out)
    \/ TechLeadRaise
    \/ BuildReport

Spec == Init /\ [][Next]_vars

-----------------------------------------------------------------------------
(* main around run_review *)

\* a plausible bug: only the project identifier is validated
ConfigMissingProjectOnly(cfg) == ~cfg.GCP_PROJECT_ID

\* main's validation: a required setting is absent
ConfigMissing(cfg) == ~cfg.GCP_PROJECT_ID \/ ~cfg.GITHUB_TOKEN

\* main's printing of the summary raises: it iterates over
\* critical_blockers, important_improvements and next_steps when truthy
SummaryPrintRaises(results) ==
    \/ results.critical_blockers = Scalar
    \/ results.important_improvements = Scalar
    \/ results.next_steps = Scalar

InitMain ==
    /\ pc = "idle"
    /\ agent = [i \in Specialists |-> "pending"]
    /\ invocations = [i \in Specialists |-> 0]
    /\ techLead = "pending"
    /\ state = <<>>
    /\ final_response = <<>>
    /\ seen = SpecialistSlots(<<>>)
    /\ report = NoReport
    /\ text = <<>>
    /\ parsed = NotCalled
    /\ writers = {}
    /\ mainPc = "validate"
    /\ config \in [GCP_PROJECT_ID : BOOLEAN, GITHUB_TOKEN : BOOLEAN]
    /\ tools_discovered = FALSE
    /\ output_file = NoReport
    /\ exit_code = <<>>

\* main validates its configuration and returns 1 if a setting is absent
MainValidate ==
    /\ mainPc = "validate"
    /\ IF ConfigMissing(config)
       THEN mainPc' = "exited" /\ exit_code' = <<1>>
       ELSE mainPc' = "discover" /\ UNCHANGED exit_code
    /\ UNCHANGED <<pc, agent, invocations, techLead, state, final_response,
                   seen, report, text, parsed, writers, config,
                   tools_discovered, output_file>>

\* main discovers the tools; a failure is reported and ignored
DiscoverTools ==
    /\ mainPc = "discover"
    /\ mainPc' = "ready"
    /\ tools_discovered' = TRUE
    /\ UNCHANGED <<pc, agent, invocations, techLead, state, final_response,
                   seen, report, text, parsed, writers, config, output_file,
                   exit_code>>

\* main calls run_review, which builds the agents and creates the session
CallRunReview ==
    /\ mainPc = "ready"
    /\ mainPc' = "review"
    /\ pc = "idle"
    /\ pc' = "start"
    /\ state' = InitialState
    /\ UNCHANGED <<agent, invocations, techLead, final_response, seen, report,
                   text, parsed, writers, config, tools_discovered,
                   output_file, exit_code>>

\* run_review returned: main writes the report, prints the summary and
\* returns 0; if the writing or the printing raises, main returns 1
WriteReport(ok) ==
    /\ mainPc = "review"
    /\ pc = "done"
    /\ mainPc' = "exited"
    /\ IF ok
       THEN /\ output_file' = report
            /\ exit_code' = IF SummaryPrintRaises(report) THEN <<1>> ELSE <<0>>
       ELSE /\ UNCHANGED output_file
            /\ exit_code' = <<1>>
    /\ UNCHANGED <<pc, agent, invocations, techLead, state, final_response,
                   seen, report, text, parsed, writers, config,
                   tools_discovered>>

\* run_review raised: main logs the error and returns 1
ReviewFailed ==
    /\ mainPc = "review"
    /\ pc = "raised"
    /\ mainPc' = "exited"
    /\ exit_code' = <<1>>
    /\ UNCHANGED <<pc, agent, invocations, techLead, state, final_response,
                   seen, report, text, parsed, writers, config,
                   tools_discovered, output_file>>

NextMain ==
    \/ MainValidate
    \/ DiscoverTools
    \/ CallRunReview
    \/ Next
    \/ \E ok \in BOOLEAN : WriteReport(ok)
    \/ ReviewFailed

SpecMain == InitMain /\ [][NextMain]_vars

-----------------------------------------------------------------------------
(* parse_json_response on its own *)

Alphabet == {LBrace, RBrace, "p", "findings:[]", DeepMember}

\* every text of at most MaxLen tokens
Texts == UNION {[1..n -> Alphabet] : n \in 0..MaxLen}

InitParse ==
    /\ pc = "start"
    /\ agent = [i \in Specialists |-> "pending"]
    /\ invocations = [i \in Specialists |-> 0]
    /\ techLead = "pending"
    /\ state = InitialState
    /\ final_response = <<>>
    /\ seen = SpecialistSlots(InitialState)
    /\ report = NoReport
    /\ text \in Texts
    /\ parsed = NotCalled
    /\ writers = {}
    /\ InRunReview

\* parse_json_response(text) is called
CallParse ==
    /\ ~parsed.called
    /\ parsed' = [called |-> TRUE, result |-> ParseJsonResponse(text)]
    /\ UNCHANGED <<pc, agent, invocations, techLead, state, final_response,
                   seen, report, text>>
    /\ UNCHANGED <<writers, mainVars>>

NextParse == CallParse

SpecParse == InitParse /\ [][NextParse]_vars

-----------------------------------------------------------------------------
(* Vocabulary of the properties *)

\* the raw output in specialist i's slot
Slot(i) == SpecialistSlots(state)[i]

HasOutput(i) == Slot(i) # <<>>

\* the payload extracted from specialist i's output
Payload(i) == ParseJsonResponse(Slot(i)).value

ReportsNoAccess(i) == HasOutput(i) /\ Get(Payload(i), "pr_accessed", TRUE) = FALSE

FindingsOf(i) == IF HasOutput(i) THEN Get(Payload(i), "findings", <<>>) ELSE <<>>

RECURSIVE SumFindings(_)
SumFindings(n) == IF n = 0 THEN 0 ELSE Len(FindingsOf(n)) + SumFindings(n - 1)

\* findings over all five specialists
AllFindings == SumFindings(Len(SpecialistAgents))

\* specialists that failed: no output, or pr_accessed = false
FailedSpecialists == {i \in Specialists : ~HasOutput(i) \/ ReportsNoAccess(i)}

\* a payload can be parsed from t between its first "{" and its last "}"
HasParseablePayload(t) ==
    \E i, j \in 1..Len(t) :
        /\ i < j
        /\ t[i] = LBrace /\ \A k \in 1..(i - 1) : t[k] # LBrace
        /\ t[j] = RBrace /\ \A k \in (j + 1)..Len(t) : t[k] # RBrace
        /\ JsonLoads(SubSeq(t, i, j)).ok

\* non-empty prose, no brace in it
IsProse(t) == t # <<>> /\ \A k \in 1..Len(t) : t[k] \in ProseTokens

\* the entry of specialist i in the report, if any
EntriesOf(i) ==
    {k \in 1..Len(report.specialist_reviews) :
        report.specialist_reviews[k].agent = SpecialistAgents[i].name}

HasCritical(i) ==
    \E k \in 1..Len(FindingsOf(i)) : FindingsOf(i)[k].severity = "CRITICAL"

IsClean(i) ==
    /\ HasOutput(i)
    /\ "pr_accessed" \in DOMAIN Payload(i)
    /\ Payload(i)["pr_accessed"] = TRUE
    /\ FindingsOf(i) = <<>>

\* the text in the synthesis slot, empty when the slot is absent
SynthesisSlot == Get(state, TechLeadKey, <<>>)

-----------------------------------------------------------------------------
(* Properties *)

\* C1: the final report has auto_approve = true only if the findings of all
\* specialists sum to 0 and data_access_status is all_success; a specialist
\* without output or with pr_accessed = false forces auto_approve = false.
C1_AutoApproveOnlyWhenClean ==
    (pc = "done" /\ report.auto_approve) =>
        /\ AllFindings = 0
        /\ report.data_access_status = "all_success"
        /\ FailedSpecialists = {}

\* C2: when the findings sum to 0 and data_access_status is all_success, the
\* report has auto_approve = true and final_decision = APPROVE, whatever the
\* synthesis payload is.
C2_CleanRunIsApproved ==
    (pc = "done" /\ AllFindings = 0 /\ report.data_access_status = "all_success") =>
        report.auto_approve /\ report.final_decision = "APPROVE"

\* a clean run whose tech lead asked for changes is approved all the same
C2_Witness ==
    /\ pc = "done"
    /\ AllFindings = 0
    /\ report.data_access_status = "all_success"
    /\ SynthesisSlot = RequestChangesSynthesis
    /\ report.auto_approve
    /\ report.final_decision = "APPROVE"

\* C3: data_access_status is all_success iff no specialist failed (no output,
\* or pr_accessed = false), all_failed iff all five failed, partial_failure
\* in every other case.
C3_DataAccessStatus ==
    pc = "done" =>
        /\ report.data_access_status = "all_success" <=> FailedSpecialists = {}
        /\ report.data_access_status = "all_failed" <=> FailedSpecialists = Specialists
        /\ report.data_access_status = "partial_failure" <=>
              (FailedSpecialists # {} /\ FailedSpecialists # Specialists)

\* one specialist without output, one without access, one with access
C3_Witness ==
    /\ pc = "done"
    /\ report.data_access_status = "partial_failure"
    /\ \E i, j, k \in Specialists :
          /\ ~HasOutput(i)
          /\ ReportsNoAccess(j)
          /\ HasOutput(k) /\ ~ReportsNoAccess(k)

\* C4, as stated: files_reviewed is the union of the file lists of all
\* specialist entries, whatever their pr_accessed, each path once.
C4_FilesOfEverySpecialist ==
    pc = "done" =>
        /\ Range(report.files_reviewed) =
              UNION {Range(report.specialist_reviews[k].files_reviewed) :
                        k \in 1..Len(report.specialist_reviews)}
        /\ Len(report.files_reviewed) = Cardinality(Range(report.files_reviewed))

\* C4, amended: files_reviewed is the union of the file lists of the
\* specialist entries whose pr_accessed is true, each path once.
C4_FilesOfAccessingSpecialists ==
    pc = "done" =>
        /\ Range(report.files_reviewed) =
              UNION {Range(report.specialist_reviews[k].files_reviewed) :
                        k \in {n \in 1..Len(report.specialist_reviews) :
                                 report.specialist_reviews[n].pr_accessed = TRUE}}
        /\ Len(report.files_reviewed) = Cardinality(Range(report.files_reviewed))

\* two specialists report the same path, a third without access reports
\* another one, which the report leaves out
C4_Witness ==
    /\ pc = "done"
    /\ report.files_reviewed = <<"a">>
    /\ \E i, j, k \in 1..Len(report.specialist_reviews) :
          /\ i # j
          /\ report.specialist_reviews[i].pr_accessed = TRUE
          /\ report.specialist_reviews[j].pr_accessed = TRUE
          /\ "a" \in Range(report.specialist_reviews[i].files_reviewed)
          /\ "a" \in Range(report.specialist_reviews[j].files_reviewed)
          /\ report.specialist_reviews[k].pr_accessed = FALSE
          /\ "b" \in Range(report.specialist_reviews[k].files_reviewed)

\* C5: one specialist with a CRITICAL finding, the other four clean: the
\* report has final_decision = REQUEST_CHANGES and auto_approve = false.
C5_CriticalRequestsChanges ==
    (/\ pc = "done"
     /\ \E i \in Specialists :
           HasCritical(i) /\ \A j \in Specialists \ {i} : IsClean(j)) =>
        report.final_decision = "REQUEST_CHANGES" /\ ~report.auto_approve

\* C6: the tech lead is not started before every specialist has ended, and
\* what it reads from the specialists' slots is what the slots hold for good.
C6_ForkJoinBarrier ==
    techLead # "pending" =>
        /\ \A i \in Specialists : agent[i] \in {"done", "raised"}
        /\ seen = SpecialistSlots(state)

\* the tech lead has run on slots of which some are filled and some are not
C6_Witness ==
    /\ techLead = "done"
    /\ \E i, j \in Specialists : seen[i] # <<>> /\ seen[j] = <<>>
    /\ \A i \in Specialists : invocations[i] = 1

\* C7: if a specialist fails (raises, or yields no or malformed output), the
\* other four still end and the tech lead is still invoked.
C7_FailureIsolation ==
    pc \in {"done", "raised"} =>
        \A i \in Specialists :
            (\/ agent[i] = "raised"
             \/ agent[i] = "done" /\ ~HasParseablePayload(Slot(i))) =>
                /\ \A j \in Specialists \ {i} : agent[j] = "done"
                /\ techLead # "pending"

\* C8: parse_json_response never raises, and whenever no payload can be
\* parsed between the first "{" and the last "}" it returns exactly
\* {summary: the text, findings: [], recommendation: COMMENT}.
C8_ParseIsTotal ==
    parsed.called =>
        /\ ~parsed.result.raised
        /\ ~HasParseablePayload(text) =>
              /\ DOMAIN parsed.result.value = {"summary", "findings", "recommendation"}
              /\ parsed.result.value["summary"] = text
              /\ parsed.result.value["findings"] = <<>>
              /\ parsed.result.value["recommendation"] = "COMMENT"

\* C9: a specialist whose output is non-empty prose has an entry with the
\* prose as summary, no findings and recommendation COMMENT, and extracting
\* its payload raises nothing.
C9_ProseDegrades ==
    \A i \in Specialists : IsProse(Slot(i)) =>
        /\ ~ParseJsonResponse(Slot(i)).raised
        /\ pc = "done" =>
              /\ EntriesOf(i) # {}
              /\ \A k \in EntriesOf(i) :
                    /\ report.specialist_reviews[k].summary = Slot(i)
                    /\ report.specialist_reviews[k].findings = <<>>
                    /\ report.specialist_reviews[k].findings_count = 0
                    /\ report.specialist_reviews[k].recommendation = "COMMENT"

\* a report with a prose specialist in it
C9_Witness ==
    /\ pc = "done"
    /\ \E i \in Specialists :
          /\ Slot(i) = ProseOutput
          /\ \E k \in EntriesOf(i) :
                report.specialist_reviews[k].summary = ProseOutput

\* the fields of the report a synthesis payload p decides, and their defaults
SynthesisFields(p) ==
    [summary |-> Get(p, "summary", ReviewCompleted),
     overall_score |-> Get(p, "overall_score", 0),
     critical_blockers |-> Get(p, "critical_blockers", <<>>),
     important_improvements |-> Get(p, "important_improvements", <<>>),
     optional_suggestions |-> Get(p, "optional_suggestions", <<>>),
     inline_comments |-> Get(p, "inline_comments", <<>>),
     next_steps |-> Get(p, "next_steps", <<>>),
     rationale |-> Get(p, "rationale", <<>>),
     congratulations_message |->
        Get(p, "congratulations_message", DefaultCongratulations)]

\* the same fields as the report has them
ReportedFields ==
    [summary |-> report.summary,
     overall_score |-> report.overall_score,
     critical_blockers |-> report.critical_blockers,
     important_improvements |-> report.important_improvements,
     optional_suggestions |-> report.optional_suggestions,
     inline_comments |-> report.inline_comments,
     next_steps |-> report.next_steps,
     rationale |-> report.rationale,
     congratulations_message |-> report.congratulations_message]

\* C10: with the synthesis slot absent or unparseable every synthesis field
\* of the report has its default (auto_approve false and final_decision
\* COMMENT outside the zero-findings override); with a payload present the
\* fields are the payload's; the run does not fail.
C10_SynthesisDegradesToDefaults ==
    /\ pc = "done" =>
          LET clean == AllFindings = 0 /\ FailedSpecialists = {}
          IN  IF HasParseablePayload(SynthesisSlot)
              THEN LET p == ParseJsonResponse(SynthesisSlot).value
                   IN  /\ ReportedFields = SynthesisFields(p)
                       /\ ~clean => /\ report.auto_approve = Get(p, "auto_approve", FALSE)
                                    /\ report.final_decision =
                                          Get(p, "final_decision", "COMMENT")
              ELSE /\ ReportedFields = SynthesisFields(<<>>)
                   /\ ~clean => /\ report.auto_approve = FALSE
                                /\ report.final_decision = "COMMENT"
    /\ pc = "raised" =>
          techLead = "raised" \/ \E i \in Specialists : agent[i] = "raised"
    /\ ~HasParseablePayload(SynthesisSlot) =>
          ~ParseJsonResponse(TechLeadText(state, final_response)).raised


\* a required setting of main is absent
SettingAbsent == ~config.GCP_PROJECT_ID \/ ~config.GITHUB_TOKEN

\* no work has started: no tool discovery, no agents, no review run
NoWorkStarted ==
    /\ ~tools_discovered
    /\ pc = "idle"
    /\ \A i \in Specialists : invocations[i] = 0 /\ agent[i] = "pending"
    /\ techLead = "pending"

\* what C11 says of the exits with status 1
ExitOneCases ==
    /\ mainPc = "exited" => exit_code \in {<<0>>, <<1>>}
    /\ mainPc # "exited" => exit_code = <<>>
    /\ SettingAbsent /\ mainPc = "exited" => exit_code = <<1>> /\ NoWorkStarted
    /\ SettingAbsent => NoWorkStarted
    /\ mainPc = "exited" /\ pc = "raised" => exit_code = <<1>>
    /\ mainPc = "exited" /\ pc = "done" /\ output_file # report => exit_code = <<1>>

\* C11, as stated: main returns 1 when the project identifier or the access
\* token is absent, before any work starts; it returns 1 when run_review or
\* the report writing raises; it returns 0 exactly when the run completes and
\* the report is written.
C11_ExitStatus ==
    /\ ExitOneCases
    /\ exit_code = <<0>> <=>
          (mainPc = "exited" /\ pc = "done" /\ output_file = report)

\* C11, amended: as above, but main returns 0 exactly when the run
\* completes, the report is written and the printing of the summary, which
\* follows the writing, raises nothing; it returns 1 when the printing
\* raises, the report being written all the same.
C11_ExitStatusAfterPrinting ==
    /\ ExitOneCases
    /\ exit_code = <<0>> <=>
          /\ mainPc = "exited" /\ pc = "done" /\ output_file = report
          /\ report.critical_blockers # Scalar
          /\ report.important_improvements # Scalar
          /\ report.next_steps # Scalar

\* the run completed and the report is written, yet main returned 1
C11_Witness ==
    /\ mainPc = "exited"
    /\ pc = "done"
    /\ output_file = report
    /\ exit_code = <<1>>


\* the store key of every role, as the specification names it
OwnKeys ==
    {<<"productowner_review", "ProductOwner">>,
     <<"seniorengineer_review", "SeniorEngineer">>,
     <<"securityengineer_review", "SecurityEngineer">>,
     <<"devopsengineer_review", "DevOpsEngineer">>,
     <<"qaengineer_review", "QAEngineer">>,
     <<"tech_lead_synthesis", "TechLead">>}

\* C12: each of the five roles is invoked exactly once in a run, each role
\* writes only its own key '<name lowercased>_review', the five keys and
\* 'tech_lead_synthesis' are pairwise distinct, and no key of the store is
\* written by more than one role, whatever the interleaving.
C12_SingleWriterSlots ==
    /\ \A i \in Specialists : invocations[i] <= 1
    /\ pc \notin {"idle", "start"} => \A i \in Specialists : invocations[i] = 1
    /\ writers \subseteq OwnKeys
    /\ \A w1, w2 \in writers : w1[1] = w2[1] => w1[2] = w2[2]
    /\ Cardinality({SpecialistAgents[i].output_key : i \in Specialists}
                      \cup {TechLeadKey}) = Len(SpecialistAgents) + 1
    /\ DOMAIN state \subseteq
          DOMAIN InitialState \cup {w[1] : w \in writers}

\* a finished run in which all six roles have written
C12_Witness ==
    /\ pc = "done"
    /\ Cardinality(writers) = 6
    /\ \A i \in Specialists : invocations[i] = 1 /\ HasOutput(i)


\* the issue the report holds for specialist i, if any
IssuesOf(i) ==
    {k \in 1..Len(report.data_access_issues) :
        report.data_access_issues[k][1] = SpecialistAgents[i].name}

\* C14: a specialist has an entry in data_access_issues only if its slot is
\* empty or absent or its payload carries a falsy pr_accessed; a non-empty
\* output without pr_accessed, the fallback payload of prose included, counts
\* as a successful access, so five prose outputs end in all_success,
\* auto_approve = true and APPROVE.
C14_MissingAccessFlagIsSuccess ==
    pc = "done" =>
        /\ \A i \in Specialists :
              /\ IssuesOf(i) # {} <=> (~HasOutput(i) \/ ReportsNoAccess(i))
              /\ (HasOutput(i) /\ "pr_accessed" \notin DOMAIN Payload(i)) =>
                    /\ IssuesOf(i) = {}
                    /\ \A k \in EntriesOf(i) :
                          report.specialist_reviews[k].pr_accessed = TRUE
        /\ (\A i \in Specialists : IsProse(Slot(i))) =>
              /\ report.data_access_status = "all_success"
              /\ report.auto_approve
              /\ report.final_decision = "APPROVE"

\* five prose outputs and a tech lead asking for changes: approved
C14_Witness ==
    /\ pc = "done"
    /\ \A i \in Specialists : Slot(i) = ProseOutput
    /\ SynthesisSlot = RequestChangesSynthesis
    /\ report.data_access_issues = <<>>
    /\ report.data_access_status = "all_success"
    /\ report.auto_approve
    /\ report.final_decision = "APPROVE"


\* C15: in every final report auto_approve = true implies final_decision =
\* APPROVE, for every synthesis payload and every combination of specialist
\* payloads.
C15_DecisionFieldsConsistent ==
    (pc = "done" /\ report.auto_approve) => report.final_decision = "APPROVE"


\* the texts final_response can hold at the end of the event loop, over the
\* orders in which the agents that wrote the slots of the state can have
\* given their final responses: the tech lead's if it gave one, for it runs
\* last, and else the text of whichever specialist ended last
FinalResponsesOverOrders ==
    IF TechLeadKey \in DOMAIN state THEN {state[TechLeadKey]}
    ELSE IF \E i \in Specialists : HasOutput(i)
         THEN {Slot(i) : i \in {j \in Specialists : HasOutput(j)}}
         ELSE {<<>>}

\* the report run_review builds from the slots of the state when the event
\* loop ended with final_response = fr
ReportWith(fr) ==
    ReviewReport(ReviewLoop(state, Len(SpecialistAgents)),
                 ParseJsonResponse(TechLeadText(state, fr)).value,
                 report.files_reviewed)

\* the content of a report that C13 lists
ListedContent(r) ==
    [data_access_status |-> r.data_access_status,
     data_access_issues |-> Range(r.data_access_issues),
     files_reviewed |-> Range(r.files_reviewed),
     total_findings |-> TotalFindings(r.specialist_reviews),
     auto_approve |-> r.auto_approve,
     final_decision |-> r.final_decision,
     specialist_reviews |-> r.specialist_reviews]

\* C13: for fixed outputs of the roles, every order in which the specialists
\* complete yields the same data_access_status, data_access_issues,
\* files_reviewed, finding count, auto_approve, final_decision and
\* specialist_reviews in the final report.
C13_SpecialistsCommute ==
    pc = "done" =>
        \A fr \in FinalResponsesOverOrders :
            ListedContent(ReportWith(fr)) = ListedContent(report)

=============================================================================
